---- MODULE Spec2Model ----
(***************************************************************************)
(* A model of the library catalog of src/app.py: class Book (the Record),  *)
(* class Library (the Store, its JSON file) and the menu loop of main().   *)
(***************************************************************************)
EXTENDS Integers, Sequences, FiniteSets, TLC

VARIABLES
    books,          \* Library.books: the Store, a sequence of Book records
    file,           \* the content of library_data.json
    current_user,   \* main(): current_user
    clock,          \* number of datetime.now() readings taken so far
    out,            \* the lines printed by the last operation
    ret,            \* repr() of what the last direct method call returned
    faults_left,    \* how many more I/O errors the file system may raise in save_books
    calls           \* history: the add_rating calls made with a rating in [1, 5],
                    \* or the query last called and its arguments

vars == <<books, file, current_user, clock, out, ret, faults_left, calls>>

----------------------------------------------------------------------------
(* Bounds of the model.                                                    *)

MaxBooks == 2
MaxClock == 2
MaxRecordClock == 3
MaxRatings == 1
MaxCalls == 8
MaxSaveFailures == 1
MaxQueryShelf == 3
MaxShelf == 6
MaxEntries == 2

----------------------------------------------------------------------------
(* Python float (IEEE 754 binary64, round to nearest, ties to even).       *)
(* A float x with 0 <= x < 64 that is a multiple of 2^-52 is the triple    *)
(* <<i, m, l>> with x = i + m / 2^26 + l / 2^52 and 0 <= m, l < 2^26.      *)
(* Every float in [1, 64) is such a multiple; the floats of a binade       *)
(* [2^k, 2^(k+1)) are the multiples of 2^(k-52).                           *)

Limb == 2^26

\* carry propagation of a triple whose low limbs may exceed Limb
Norm(t) ==
    LET l == t[3] % Limb
        m2 == t[2] + (t[3] \div Limb)
    IN  <<t[1] + (m2 \div Limb), m2 % Limb, l>>

\* int -> float conversion of a small non-negative int (exact)
float(k) == <<k, 0, 0>>

\* x <= y on floats
FLe(x, y) ==
    \/ x[1] < y[1]
    \/ x[1] = y[1] /\ x[2] < y[2]
    \/ x[1] = y[1] /\ x[2] = y[2] /\ x[3] <= y[3]

\* the spacing of the floats around x, in units of 2^-52
Ulp(x) ==
    IF x[1] < 2 THEN 1
    ELSE IF x[1] < 4 THEN 2
    ELSE IF x[1] < 8 THEN 4
    ELSE IF x[1] < 16 THEN 8
    ELSE IF x[1] < 32 THEN 16
    ELSE 32

\* the float nearest to the real x + (num / den) * 2^-52, 0 <= num < den,
\* ties to the even mantissa
Round(x, num, den) ==
    LET u == Ulp(x)
        r == x[3] % u
        q == x[3] \div u
        cmp == 2 * (r * den + num) - u * den
        down == <<x[1], x[2], x[3] - r>>
        up == Norm(<<x[1], x[2], x[3] - r + u>>)
    IN  IF cmp > 0 \/ (cmp = 0 /\ q % 2 = 1) THEN up ELSE down

\* float * int, as in self.rating * self.num_ratings
FMul(x, n) == Round(Norm(<<x[1] * n, x[2] * n, x[3] * n>>), 0, 1)

\* float + float
FAdd(x, y) == Round(Norm(<<x[1] + y[1], x[2] + y[2], x[3] + y[3]>>), 0, 1)

\* float / int, d > 0: long division, then one rounding
FDiv(x, d) ==
    LET q1 == x[1] \div d
        r1 == x[1] % d
        q2 == (r1 * Limb + x[2]) \div d
        r2 == (r1 * Limb + x[2]) % d
        q3 == (r2 * Limb + x[3]) \div d
        r3 == (r2 * Limb + x[3]) % d
    IN  Round(<<q1, q2, q3>>, r3, d)

----------------------------------------------------------------------------
(* Python values.  A str is a tuple of one-character strings; None is a    *)
(* value that is no str.  A datetime.now().isoformat() string is           *)
(* <<"T", k>>, k the number of the clock reading it was taken at.          *)

None == <<"None">>

\* not s, for s a str or None
Falsy(s) == s = <<>> \/ s = None

isoformat(k) == <<"T", k>>

\* the ASCII digits and letters, in code point order
Digits == <<"0", "1", "2", "3", "4", "5", "6", "7", "8", "9">>

UpperCase ==
    <<"A", "B", "C", "D", "E", "F", "G", "H", "I", "J", "K", "L", "M",
      "N", "O", "P", "Q", "R", "S", "T", "U", "V", "W", "X", "Y", "Z">>

LowerCase ==
    <<"a", "b", "c", "d", "e", "f", "g", "h", "i", "j", "k", "l", "m",
      "n", "o", "p", "q", "r", "s", "t", "u", "v", "w", "x", "y", "z">>

\* the index of c in the sequence of characters cs, 0 when it is not there
index(cs, c) ==
    IF \E i \in 1..Len(cs) : cs[i] = c
    THEN CHOOSE i \in 1..Len(cs) : cs[i] = c
    ELSE 0

\* ord(c), c an ASCII digit or letter
ord(c) ==
    IF index(Digits, c) > 0 THEN 47 + index(Digits, c)
    ELSE IF index(UpperCase, c) > 0 THEN 64 + index(UpperCase, c)
    ELSE 96 + index(LowerCase, c)

\* str.lower() that leaves every character as it is
lower_identity(s) == s

\* str.lower()
lower(s) ==
    [i \in 1..Len(s) |->
        IF index(UpperCase, s[i]) > 0 THEN LowerCase[index(UpperCase, s[i])] ELSE s[i]]

\* sub in s, for strs
contains(sub, s) ==
    \E i \in 0..(Len(s) - Len(sub)) : SubSeq(s, i + 1, i + Len(sub)) = sub

\* s < t, for strs: the order of the code points at the first difference, a
\* proper prefix being the smaller
str_lt(s, t) ==
    \E i \in 1..(Len(t)) :
        /\ i <= Len(s) + 1
        /\ SubSeq(s, 1, i - 1) = SubSeq(t, 1, i - 1)
        /\ i = Len(s) + 1 \/ ord(s[i]) < ord(t[i])

----------------------------------------------------------------------------
(* class Book                                                              *)

\* Book.__init__ with title and author stored under each other's name
Book_swapped(title, author, genre, book_id) ==
    [title |-> author, author |-> title, genre |-> genre, book_id |-> book_id,
     is_borrowed |-> FALSE, borrow_history |-> <<>>,
     rating |-> float(0), num_ratings |-> 0]

\* Book.__init__
Book(title, author, genre, book_id) ==
    [title |-> title, author |-> author, genre |-> genre, book_id |-> book_id,
     is_borrowed |-> FALSE, borrow_history |-> <<>>,
     rating |-> float(0), num_ratings |-> 0]

\* Book.add_rating adding the rating to the old average, not to the old total
add_rating_no_total(b, rating) ==
    IF FLe(float(1), rating) /\ FLe(rating, float(5))
    THEN [b EXCEPT !.rating = FDiv(FAdd(b.rating, rating), b.num_ratings + 1),
                   !.num_ratings = b.num_ratings + 1]
    ELSE b

\* Book.add_rating checking rating <= 5 only
add_rating_no_lower(b, rating) ==
    IF FLe(rating, float(5))
    THEN [b EXCEPT !.rating = FDiv(FAdd(FMul(b.rating, b.num_ratings), rating),
                                   b.num_ratings + 1),
                   !.num_ratings = b.num_ratings + 1]
    ELSE b

\* Book.add_rating: the book afterwards
add_rating(b, rating) ==
    IF FLe(float(1), rating) /\ FLe(rating, float(5))
    THEN [b EXCEPT !.rating = FDiv(FAdd(FMul(b.rating, b.num_ratings), rating),
                                   b.num_ratings + 1),
                   !.num_ratings = b.num_ratings + 1]
    ELSE b

\* Book.borrow without the check of line 32
borrow_unchecked(b, user_id, now) ==
    [ret |-> TRUE,
     book |-> [b EXCEPT !.is_borrowed = TRUE,
                        !.borrow_history = Append(@,
                            [user_id |-> user_id,
                             borrow_date |-> isoformat(now),
                             return_date |-> None])]]

\* Book.borrow at clock reading now: the value returned and the book afterwards
borrow(b, user_id, now) ==
    IF ~b.is_borrowed
    THEN [ret |-> TRUE,
          book |-> [b EXCEPT !.is_borrowed = TRUE,
                             !.borrow_history = Append(@,
                                 [user_id |-> user_id,
                                  borrow_date |-> isoformat(now),
                                  return_date |-> None])]]
    ELSE [ret |-> FALSE, book |-> b]

\* Book.return_book without line 47: the entry stays open
return_book_no_date(b, now) ==
    IF b.is_borrowed
    THEN [ret |-> TRUE, book |-> [b EXCEPT !.is_borrowed = FALSE]]
    ELSE [ret |-> FALSE, book |-> b]

\* Book.return_book without the check of line 44
return_book_unchecked(b, now) ==
    [ret |-> TRUE,
     book |-> [b EXCEPT !.is_borrowed = FALSE,
                        !.borrow_history =
                            IF @ # <<>>
                            THEN [@ EXCEPT ![Len(@)].return_date = isoformat(now)]
                            ELSE @]]

\* Book.return_book at clock reading now
return_book(b, now) ==
    IF b.is_borrowed
    THEN [ret |-> TRUE,
          book |-> [b EXCEPT !.is_borrowed = FALSE,
                             !.borrow_history =
                                 IF @ # <<>>
                                 THEN [@ EXCEPT ![Len(@)].return_date = isoformat(now)]
                                 ELSE @]]
    ELSE [ret |-> FALSE, book |-> b]

\* Book.to_dict
to_dict(b) ==
    [title |-> b.title, author |-> b.author, genre |-> b.genre,
     book_id |-> b.book_id, is_borrowed |-> b.is_borrowed,
     borrow_history |-> b.borrow_history,
     rating |-> b.rating, num_ratings |-> b.num_ratings]

\* the keys Book.from_dict reads with data[...]: a missing one raises KeyError
RequiredKeys == {"title", "author", "genre", "book_id", "is_borrowed", "borrow_history"}

\* data.get(key, default)
get(data, key, default) == IF key \in DOMAIN data THEN data[key] ELSE default

\* Book.from_dict without line 68: is_borrowed stays as __init__ set it
from_dict_not_borrowed(data) ==
    IF RequiredKeys \subseteq DOMAIN data
    THEN [ok |-> TRUE,
          book |-> [Book(data.title, data.author, data.genre, data.book_id)
                       EXCEPT !.borrow_history = data.borrow_history,
                              !.rating = get(data, "rating", float(0)),
                              !.num_ratings = get(data, "num_ratings", 0)]]
    ELSE [ok |-> FALSE]

\* Book.from_dict: ok = FALSE when it raises KeyError
from_dict(data) ==
    IF RequiredKeys \subseteq DOMAIN data
    THEN [ok |-> TRUE,
          book |-> [Book(data.title, data.author, data.genre, data.book_id)
                       EXCEPT !.is_borrowed = data.is_borrowed,
                              !.borrow_history = data.borrow_history,
                              !.rating = get(data, "rating", float(0)),
                              !.num_ratings = get(data, "num_ratings", 0)]]
    ELSE [ok |-> FALSE]

----------------------------------------------------------------------------
(* The json module.  A JSON text is modelled by its parse tree: every node *)
(* is a record whose field json names the kind of the node.  json.dump     *)
(* writes a str as a string, None as null, a bool as true / false, a float *)
(* as a number with a fraction part (repr, which float() reads back to the *)
(* same float) and an int as a number without one.                         *)

json_null == [json |-> "null"]

\* a str or None
json_str(s) == IF s = None THEN json_null ELSE [json |-> "string", chars |-> s]

json_bool(b) == IF b THEN [json |-> "true"] ELSE [json |-> "false"]

json_float(x) == [json |-> "number", fraction |-> TRUE, value |-> x]

json_int(n) == [json |-> "number", fraction |-> FALSE, value |-> n]

json_array(items) == [json |-> "array", items |-> items]

json_object(members) == [json |-> "object", members |-> members]

\* json.dump of one entry of borrow_history
dump_entry(e) ==
    json_object([user_id |-> json_str(e.user_id),
                 borrow_date |-> json_str(e.borrow_date),
                 return_date |-> json_str(e.return_date)])

\* json.dump of one Book.to_dict()
dump_dict(d) ==
    json_object([title |-> json_str(d.title), author |-> json_str(d.author),
                 genre |-> json_str(d.genre), book_id |-> json_str(d.book_id),
                 is_borrowed |-> json_bool(d.is_borrowed),
                 borrow_history |->
                     json_array([i \in 1..Len(d.borrow_history) |->
                                    dump_entry(d.borrow_history[i])]),
                 rating |-> json_float(d.rating),
                 num_ratings |-> json_int(d.num_ratings)])

\* json.dump(json_data, file, indent=4), json_data a list of to_dict() values
json_dump(json_data) ==
    json_array([i \in 1..Len(json_data) |-> dump_dict(json_data[i])])

\* json.load: the Python value of a JSON text
RECURSIVE json_load(_)
json_load(v) ==
    CASE v.json = "null" -> None
      [] v.json = "true" -> TRUE
      [] v.json = "false" -> FALSE
      [] v.json = "string" -> v.chars
      [] v.json = "number" -> v.value
      [] v.json = "array" -> [i \in 1..Len(v.items) |-> json_load(v.items[i])]
      [] v.json = "object" -> [k \in DOMAIN v.members |-> json_load(v.members[k])]

----------------------------------------------------------------------------
(* class Library: persistence.  The file library_data.json is absent,      *)
(* holds a JSON text, or holds text that json.load rejects.                *)

Absent == [kind |-> "absent"]

Malformed == [kind |-> "malformed"]

Text(v) == [kind |-> "text", json |-> v]

\* what a call of save_books can meet: it succeeds, open() raises and the
\* file is untouched, or open() has truncated the file and the write raises
SaveOutcomes == {"ok", "open_raises", "write_raises"}

\* Library.save_books: the file afterwards and the lines printed
save_books(bs, f, outcome) ==
    CASE outcome = "ok" ->
             [file |-> Text(json_dump([i \in 1..Len(bs) |-> to_dict(bs[i])])),
              out |-> <<>>]
      [] outcome = "open_raises" ->
             [file |-> f, out |-> <<"Error saving library data">>]
      [] outcome = "write_raises" ->
             [file |-> Malformed, out |-> <<"Error saving library data">>]

\* Library.load_books keeping the books built before from_dict raised
load_books_partial(f) ==
    CASE f.kind = "absent" -> [books |-> <<>>, out |-> <<>>]
      [] f.kind = "malformed" ->
             [books |-> <<>>, out |-> <<"Error loading library data">>]
      [] f.kind = "text" ->
             LET data == json_load(f.json)
                 loaded == [i \in 1..Len(data) |-> from_dict(data[i])]
                 good == {n \in 0..Len(data) : \A i \in 1..n : loaded[i].ok}
                 n == CHOOSE n \in good : \A k \in good : k <= n
             IN  [books |-> [i \in 1..n |-> loaded[i].book],
                  out |-> IF n = Len(data) THEN <<>>
                          ELSE <<"Error loading library data">>]

\* Library.load_books on a Library whose books is <<>>: the books afterwards
\* and the lines printed
load_books(f) ==
    CASE f.kind = "absent" -> [books |-> <<>>, out |-> <<>>]
      [] f.kind = "malformed" ->
             [books |-> <<>>, out |-> <<"Error loading library data">>]
      [] f.kind = "text" ->
             LET data == json_load(f.json)
                 loaded == [i \in 1..Len(data) |-> from_dict(data[i])]
             IN  IF \A i \in 1..Len(data) : loaded[i].ok
                 THEN [books |-> [i \in 1..Len(data) |-> loaded[i].book],
                       out |-> <<>>]
                 ELSE [books |-> <<>>, out |-> <<"Error loading library data">>]

----------------------------------------------------------------------------
(* class Library: queries.                                                 *)

\* the sort key of line 107 with the rating ascending
key_lt_ascending(x, y) ==
    \/ ~FLe(y.rating, x.rating)
    \/ x.rating = y.rating /\ str_lt(x.title, y.title)

\* (-x.rating, x.title) < (-y.rating, y.title)
key_lt(x, y) ==
    \/ ~FLe(x.rating, y.rating)
    \/ x.rating = y.rating /\ str_lt(x.title, y.title)

\* sorted(results, key=...): a stable sort, each element put behind the
\* elements before it that are not greater
RECURSIVE sorted_by_key(_)
sorted_by_key(results) ==
    IF results = <<>> THEN <<>>
    ELSE LET x == results[Len(results)]
             front == sorted_by_key(SubSeq(results, 1, Len(results) - 1))
             p == Cardinality({i \in 1..Len(front) : ~key_lt(x, front[i])})
         IN  SubSeq(front, 1, p) \o <<x>> \o SubSeq(front, p + 1, Len(front))

\* Library.search_books
search_books(bs, search_term, search_type) ==
    LET term == lower(search_term)
        results ==
            CASE search_type = "title" ->
                     SelectSeq(bs, LAMBDA b : contains(term, lower(b.title)))
              [] search_type = "author" ->
                     SelectSeq(bs, LAMBDA b : contains(term, lower(b.author)))
              [] search_type = "genre" ->
                     SelectSeq(bs, LAMBDA b : contains(term, lower(b.genre)))
              [] OTHER ->
                     SelectSeq(bs, LAMBDA b :
                         \/ contains(term, lower(b.title))
                         \/ contains(term, lower(b.author))
                         \/ contains(term, lower(b.genre)))
    IN  sorted_by_key(results)

\* the number of borrow_history entries of user_id in the book b
borrowed_by(b, user_id) ==
    Cardinality({k \in 1..Len(b.borrow_history) : b.borrow_history[k].user_id = user_id})

\* the sum of f over the set of indices I
RECURSIVE sum(_, _)
sum(f, I) ==
    IF I = {} THEN 0
    ELSE LET i == CHOOSE i \in I : TRUE
         IN  f[i] + sum(f, I \ {i})

\* user_genres[genre] after the loop of lines 115-119
user_genres(bs, user_id, genre) ==
    sum([i \in 1..Len(bs) |-> borrowed_by(bs[i], user_id)],
        {i \in 1..Len(bs) : bs[i].genre = genre})

\* user_authors[author] after the loop of lines 115-119
user_authors(bs, user_id, author) ==
    sum([i \in 1..Len(bs) |-> borrowed_by(bs[i], user_id)],
        {i \in 1..Len(bs) : bs[i].author = author})

\* the score of lines 125-127: int * 2 + int * 3 + float
score(bs, user_id, book) ==
    FAdd(float(user_genres(bs, user_id, book.genre) * 2
               + user_authors(bs, user_id, book.author) * 3),
         book.rating)

\* the list recommendations after the loop of lines 123-129, borrowed books
\* included
scored_with_borrowed(bs, user_id) ==
    LET all == [i \in 1..Len(bs) |-> [score |-> score(bs, user_id, bs[i]), book |-> bs[i]]]
    IN  SelectSeq(all, LAMBDA r : ~FLe(r.score, float(0)))

\* the list recommendations after the loop of lines 123-129: (score, book) of
\* the books not borrowed that score above 0, in the order of self.books
\* ("book not in recommendations" holds every time: the list holds tuples)
scored(bs, user_id) ==
    LET all == [i \in 1..Len(bs) |-> [score |-> score(bs, user_id, bs[i]), book |-> bs[i]]]
    IN  SelectSeq(all, LAMBDA r : ~r.book.is_borrowed /\ ~FLe(r.score, float(0)))

\* [:5] of line 132
TopN == 5

\* sorted(recommendations, reverse=True) on tuples whose scores differ: the
\* greater score first
RECURSIVE sorted_reverse(_)
sorted_reverse(recommendations) ==
    IF recommendations = <<>> THEN <<>>
    ELSE LET x == recommendations[Len(recommendations)]
             front == sorted_reverse(SubSeq(recommendations, 1, Len(recommendations) - 1))
             p == Cardinality({i \in 1..Len(front) : FLe(x.score, front[i].score)})
         IN  SubSeq(front, 1, p) \o <<x>> \o SubSeq(front, p + 1, Len(front))

\* Library.generate_recommendations.  sorted compares the tuples (score, book):
\* two tuples of equal score are compared by their books, and Book defines no
\* "<", so the sort raises TypeError as soon as two scores are equal
generate_recommendations(bs, user_id) ==
    LET recommendations == scored(bs, user_id)
        n == Len(recommendations)
    IN  IF \E i, j \in 1..n : i # j /\ recommendations[i].score = recommendations[j].score
        THEN [raised |-> "TypeError", value |-> <<>>]
        ELSE LET ranked == sorted_reverse(recommendations)
                 m == IF n < TopN THEN n ELSE TopN
             IN  [raised |-> "", value |-> [i \in 1..m |-> ranked[i].book]]

\* stats['borrow_frequency'] after the loop of lines 143-148: the assignment
\* of line 148 made for the last book of each title stands
borrow_frequency(bs) ==
    [t \in {bs[i].title : i \in 1..Len(bs)} |->
        LET last == CHOOSE i \in 1..Len(bs) :
                        /\ bs[i].title = t
                        /\ \A j \in (i + 1)..Len(bs) : bs[j].title # t
        IN  Len(bs[last].borrow_history)]

\* Library.generate_statistics: each defaultdict as the function from its keys
generate_statistics(bs) ==
    [genres |-> [g \in {bs[i].genre : i \in 1..Len(bs)} |->
                    Cardinality({i \in 1..Len(bs) : bs[i].genre = g})],
     authors |-> [a \in {bs[i].author : i \in 1..Len(bs)} |->
                     Cardinality({i \in 1..Len(bs) : bs[i].author = a})],
     ratings |-> [g \in {bs[i].genre : i \in {i \in 1..Len(bs) : bs[i].num_ratings > 0}} |->
                     LET rated == SelectSeq(bs, LAMBDA b : b.genre = g /\ b.num_ratings > 0)
                     IN  [k \in 1..Len(rated) |-> rated[k].rating]],
     borrow_frequency |-> borrow_frequency(bs)]

----------------------------------------------------------------------------
(* The inputs the model draws from.                                        *)

Titles == {<<"D", "u">>}

Authors == {<<"H">>}

Genres == {<<"s">>}

Ids == {<<"1">>, <<"2">>}

Users == {<<"u">>}

\* what input() can return at a prompt for a user id or a book id
UserInputs == Users \cup {<<>>}

IdInputs == Ids \cup {<<>>}

\* the user_id Book.borrow is called with directly
RecordUsers == {<<"u">>, <<"v">>, <<>>}

\* the arguments add_book is called with: four non-empty strs, the same with
\* one of them the empty str or None, and four empty strs
AddInputs ==
    (Titles \X Authors \X Genres \X Ids)
    \cup ({<<>>, None} \X Authors \X Genres \X Ids)
    \cup (Titles \X {<<>>, None} \X Genres \X Ids)
    \cup (Titles \X Authors \X {<<>>, None} \X Ids)
    \cup (Titles \X Authors \X Genres \X {<<>>, None})
    \cup {<<<<>>, <<>>, <<>>, <<>>>>}

\* float(input("Enter rating (1-5): ")) when the text is a number
RatingInputs == {float(0), float(4), float(6)}

\* the save outcomes still allowed
Outcomes == IF faults_left > 0 THEN SaveOutcomes ELSE {"ok"}

Failed(outcome) == IF outcome = "ok" THEN 0 ELSE 1

----------------------------------------------------------------------------
(* class Library and main()                                                *)

\* the lookup of lines 278, 290, 308 without its condition: the first book
find_unfiltered(bs, book_id) == IF bs # <<>> THEN 1 ELSE 0

\* next((b for b in library.books if b.book_id == book_id), None): the index
\* of the first book with that id, 0 for None
find(bs, book_id) ==
    IF \E i \in 1..Len(bs) : bs[i].book_id = book_id
    THEN CHOOSE i \in 1..Len(bs) :
             /\ bs[i].book_id = book_id
             /\ \A j \in 1..(i - 1) : bs[j].book_id # book_id
    ELSE 0

\* what add_book prints for the two ValueErrors it raises
ValidationError == <<"Error adding book: All fields must be filled">>

DuplicateIdError == <<"Error adding book: Book ID already exists">>

\* save_books writing the books as they were before the operation
persist_stale(line) ==
    \E outcome \in Outcomes :
        LET saved == save_books(books, file, outcome)
        IN  /\ file' = saved.file
            /\ out' = saved.out \o <<line>>
            /\ faults_left' = faults_left - Failed(outcome)

\* self.save_books() on the new books, then print(line): what the environment
\* does to the write is the model's choice
persist(line) ==
    \E outcome \in Outcomes :
        LET saved == save_books(books', file, outcome)
        IN  /\ file' = saved.file
            /\ out' = saved.out \o <<line>>
            /\ faults_left' = faults_left - Failed(outcome)

\* the check of line 82 without book_id
not_all_but_id(title, author, genre, book_id) ==
    Falsy(title) \/ Falsy(author) \/ Falsy(genre)

\* not all([title, author, genre, book_id])
not_all(title, author, genre, book_id) ==
    Falsy(title) \/ Falsy(author) \/ Falsy(genre) \/ Falsy(book_id)

\* the check of line 84 comparing the wrong attribute
any_book_id_title(bs, book_id) == \E i \in 1..Len(bs) : bs[i].title = book_id

\* any(b.book_id == book_id for b in self.books)
any_book_id(bs, book_id) == \E i \in 1..Len(bs) : bs[i].book_id = book_id

\* Library.add_book with the check of line 84 made after the append of line 87
add_book_check_after(title, author, genre, book_id) ==
    IF not_all(title, author, genre, book_id)
    THEN /\ out' = ValidationError
         /\ UNCHANGED <<books, file, current_user, clock, faults_left, ret, calls>>
    ELSE /\ Len(books) < MaxBooks
         /\ books' = Append(books, Book(title, author, genre, book_id))
         /\ IF any_book_id(books, book_id)
            THEN /\ out' = DuplicateIdError
                 /\ UNCHANGED <<file, faults_left>>
            ELSE persist("Book added successfully.")
         /\ UNCHANGED <<current_user, clock, ret, calls>>

\* Library.add_book with the new book put in front: insert(0, new_book)
add_book_prepend(title, author, genre, book_id) ==
    IF not_all(title, author, genre, book_id)
    THEN /\ out' = ValidationError
         /\ UNCHANGED <<books, file, current_user, clock, faults_left, ret, calls>>
    ELSE IF any_book_id(books, book_id)
    THEN /\ out' = DuplicateIdError
         /\ UNCHANGED <<books, file, current_user, clock, faults_left, ret, calls>>
    ELSE /\ Len(books) < MaxBooks
         /\ books' = <<Book(title, author, genre, book_id)>> \o books
         /\ persist("Book added successfully.")
         /\ UNCHANGED <<current_user, clock, ret, calls>>

\* Library.add_book
add_book(title, author, genre, book_id) ==
    IF not_all(title, author, genre, book_id)
    THEN /\ out' = ValidationError
         /\ UNCHANGED <<books, file, current_user, clock, faults_left, ret, calls>>
    ELSE IF any_book_id(books, book_id)
    THEN /\ out' = DuplicateIdError
         /\ UNCHANGED <<books, file, current_user, clock, faults_left, ret, calls>>
    ELSE /\ Len(books) < MaxBooks
         /\ books' = Append(books, Book(title, author, genre, book_id))
         /\ persist("Book added successfully.")
         /\ UNCHANGED <<current_user, clock, ret, calls>>

\* main(): login(), choice '9'
main_login(user_id) ==
    /\ current_user' = user_id
    /\ out' = <<"Logged in as user">>
    /\ UNCHANGED <<books, file, clock, faults_left, ret, calls>>

\* main(): choice '3'
main_borrow(book_id) ==
    IF Falsy(current_user)
    THEN /\ \E user_id \in UserInputs : current_user' = user_id
         /\ out' = <<"Please log in first.", "Logged in as user">>
         /\ UNCHANGED <<books, file, clock, faults_left, ret, calls>>
    ELSE LET i == find(books, book_id)
         IN  IF i = 0
             THEN /\ out' = <<"Book not found.">>
                  /\ UNCHANGED <<books, file, current_user, clock, faults_left, ret, calls>>
             ELSE LET r == borrow(books[i], current_user, clock + 1)
                  IN  IF r.ret
                      THEN /\ clock < MaxClock
                           /\ clock' = clock + 1
                           /\ books' = [books EXCEPT ![i] = r.book]
                           /\ persist("Book borrowed successfully.")
                           /\ UNCHANGED <<current_user, ret, calls>>
                      ELSE /\ out' = <<"Book is already borrowed.">>
                           /\ UNCHANGED <<books, file, current_user, clock,
                                          faults_left, ret, calls>>

\* main(): choice '4'
main_return(book_id) ==
    LET i == find(books, book_id)
    IN  IF i = 0
        THEN /\ out' = <<"Book not found.">>
             /\ UNCHANGED <<books, file, current_user, clock, faults_left, ret, calls>>
        ELSE LET r == return_book(books[i], clock + 1)
             IN  IF r.ret
                 THEN /\ clock < MaxClock
                      /\ clock' = clock + 1
                      /\ books' = [books EXCEPT ![i] = r.book]
                      /\ persist("Book returned successfully.")
                      /\ UNCHANGED <<current_user, ret, calls>>
                 ELSE /\ out' = <<"Book is not borrowed.">>
                      /\ UNCHANGED <<books, file, current_user, clock,
                                     faults_left, ret, calls>>

\* main(): choice '6', the text entered being the number rating
main_rate(book_id, rating) ==
    LET i == find(books, book_id)
    IN  IF i = 0
        THEN /\ out' = <<"Book not found.">>
             /\ UNCHANGED <<books, file, current_user, clock, faults_left, ret, calls>>
        ELSE IF FLe(float(1), rating) /\ FLe(rating, float(5))
        THEN /\ books[i].num_ratings < MaxRatings
             /\ books' = [books EXCEPT ![i] = add_rating(books[i], rating)]
             /\ persist("Rating added successfully.")
             /\ UNCHANGED <<current_user, clock, ret, calls>>
        ELSE /\ out' = <<"Rating must be between 1 and 5.">>
             /\ UNCHANGED <<books, file, current_user, clock, faults_left, ret, calls>>

\* main(): choice '6', the text entered being no number (float() raises ValueError)
main_rate_invalid(book_id) ==
    /\ out' = IF find(books, book_id) = 0
              THEN <<"Book not found.">>
              ELSE <<"Please enter a valid number.">>
    /\ UNCHANGED <<books, file, current_user, clock, faults_left, ret, calls>>

\* main(): choice '0', and the program started again: Library() loads the
\* file, then login() reads user_id
main_restart(user_id) ==
    /\ LET loaded == load_books(file)
       IN  /\ books' = loaded.books
           /\ out' = loaded.out \o <<"Logged in as user">>
    /\ current_user' = user_id
    /\ UNCHANGED <<file, clock, faults_left, ret, calls>>

\* no add_rating call yet: the number and the exact sum of the ratings in
\* [1, 5] passed so far, and whether a rating outside [1, 5] was passed
NoCalls == [valid |-> 0, sum |-> float(0), rejected |-> FALSE]

\* the program started with no library_data.json, on a file system that can
\* make faults saves raise
Start(faults) ==
    /\ file = Absent
    /\ books = load_books(file).books
    /\ current_user \in UserInputs
    /\ clock = 0
    /\ out = load_books(file).out \o <<"Logged in as user">>
    /\ ret = ""
    /\ faults_left = faults
    /\ calls = NoCalls

\* every save succeeds
Init == Start(0)

\* up to MaxSaveFailures saves raise an I/O error
InitFaulty == Start(MaxSaveFailures)

Next ==
    \/ \E a \in AddInputs : add_book(a[1], a[2], a[3], a[4])
    \/ \E u \in UserInputs : main_login(u)
    \/ \E id \in IdInputs : main_borrow(id)
    \/ \E id \in IdInputs : main_return(id)
    \/ \E id \in IdInputs, r \in RatingInputs : main_rate(id, r)
    \/ \E id \in IdInputs : main_rate_invalid(id)
    \/ \E u \in UserInputs : main_restart(u)

Spec == Init /\ [][Next]_vars

SpecFaulty == InitFaulty /\ [][Next]_vars

----------------------------------------------------------------------------
(* One Book, called directly: Book.__init__, then any sequence of          *)
(* borrow(user_id), return_book() and add_rating(rating) calls.            *)

\* 1 - 2^-52 and 5 + 2^-50: the floats just outside [1, 5]
BelowOne == <<0, Limb - 1, Limb - 1>>

AboveFive == <<5, 0, 4>>

TwoAndAHalf == <<2, Limb \div 2, 0>>

\* the ratings add_rating is called with
RecordRatings ==
    {float(0), BelowOne, float(1), float(2), TwoAndAHalf, float(3), float(4),
     float(5), AboveFive, float(6)}

InRange(rating) == FLe(float(1), rating) /\ FLe(rating, float(5))

\* repr(True), repr(False)
repr(b) == IF b THEN "True" ELSE "False"

api_borrow(user_id) ==
    LET r == borrow(books[1], user_id, clock + 1)
    IN  /\ r.ret => clock < MaxRecordClock
        /\ books' = [books EXCEPT ![1] = r.book]
        /\ clock' = IF r.ret THEN clock + 1 ELSE clock
        /\ ret' = repr(r.ret)
        /\ UNCHANGED <<file, current_user, out, faults_left, calls>>

api_return_book ==
    LET r == return_book(books[1], clock + 1)
    IN  /\ r.ret => clock < MaxRecordClock
        /\ books' = [books EXCEPT ![1] = r.book]
        /\ clock' = IF r.ret THEN clock + 1 ELSE clock
        /\ ret' = repr(r.ret)
        /\ UNCHANGED <<file, current_user, out, faults_left, calls>>

api_add_rating(rating) ==
    /\ InRange(rating) => calls.valid < MaxCalls
    /\ books' = [books EXCEPT ![1] = add_rating(books[1], rating)]
    /\ calls' = IF InRange(rating)
                THEN [calls EXCEPT !.valid = @ + 1,
                                   !.sum = Norm(<<@[1] + rating[1], @[2] + rating[2],
                                                  @[3] + rating[3]>>)]
                ELSE [calls EXCEPT !.rejected = TRUE]
    /\ ret' = "None"
    /\ UNCHANGED <<file, current_user, clock, out, faults_left>>

InitRecord ==
    /\ \E t \in Titles, a \in Authors, g \in Genres, id \in Ids :
           books = <<Book(t, a, g, id)>>
    /\ file = Absent
    /\ current_user = <<>>
    /\ clock = 0
    /\ out = <<>>
    /\ ret = ""
    /\ faults_left = 0
    /\ calls = NoCalls

NextRecord ==
    \/ \E u \in RecordUsers : api_borrow(u)
    \/ api_return_book
    \/ \E r \in RecordRatings : api_add_rating(r)

SpecRecord == InitRecord /\ [][NextRecord]_vars

----------------------------------------------------------------------------
(* The queries of a Library, called directly on a Store the flows can have *)
(* built: search_books and generate_statistics on up to MaxQueryShelf      *)
(* books, generate_recommendations on up to MaxShelf books.                *)

\* book after it was rated with each of ratings in turn
RECURSIVE rated(_, _)
rated(book, ratings) ==
    IF ratings = <<>> THEN book
    ELSE add_rating(rated(book, SubSeq(ratings, 1, Len(ratings) - 1)),
                    ratings[Len(ratings)])

\* the books a Store is drawn from, each as add_book, add_rating, borrow and
\* return_book leave it
Catalogue ==
    <<return_book(borrow(rated(Book(<<"D", "u">>, <<"H">>, <<"s">>, <<"1">>),
                               <<float(5)>>), <<"u">>, 1).book, 2).book,
      rated(Book(<<"D", "u">>, <<"K">>, <<"t">>, <<"2">>), <<float(5)>>),
      rated(Book(<<"E", "m">>, <<"H">>, <<"t">>, <<"3">>), <<float(4), float(5)>>),
      rated(Book(<<"F", "o">>, <<"K">>, <<"s">>, <<"4">>), <<float(4)>>),
      rated(Book(<<"N", "e">>, <<"N">>, <<"n">>, <<"5">>), <<float(2)>>),
      borrow(Book(<<"H", "a">>, <<"H">>, <<"s">>, <<"6">>), <<"u">>, 3).book,
      Book(<<"T", "i">>, <<"H">>, <<"x">>, <<"7">>)>>

\* the Stores of at most n different books of the Catalogue, in any order
Shelves(n) ==
    {[i \in 1..Len(pick) |-> Catalogue[pick[i]]] :
        pick \in {p \in UNION {[1..k -> 1..Len(Catalogue)] : k \in 0..n} :
                     \A i, j \in 1..Len(p) : i # j => p[i] # p[j]}}

SearchTerms == {<<"d", "u">>, <<"D", "U">>, <<"h">>, <<"s">>, <<"z">>, <<>>}

SearchTypes == {"title", "author", "genre", "all"}

QueryUsers == {<<"u">>, <<"v">>}

api_search_books(search_term, search_type) ==
    /\ ret' = search_books(books, search_term, search_type)
    /\ calls' = [op |-> "search_books", search_term |-> search_term,
                 search_type |-> search_type]
    /\ UNCHANGED <<books, file, current_user, clock, out, faults_left>>

api_generate_statistics ==
    /\ ret' = generate_statistics(books)
    /\ calls' = [op |-> "generate_statistics"]
    /\ UNCHANGED <<books, file, current_user, clock, out, faults_left>>

api_generate_recommendations(user_id) ==
    /\ ret' = generate_recommendations(books, user_id)
    /\ calls' = [op |-> "generate_recommendations", user_id |-> user_id]
    /\ UNCHANGED <<books, file, current_user, clock, out, faults_left>>

\* a Library holding one of the Stores of at most n books, no query called yet
StartQuery(n) ==
    /\ books \in Shelves(n)
    /\ file = Absent
    /\ current_user = <<>>
    /\ clock = 0
    /\ out = <<>>
    /\ ret = ""
    /\ faults_left = 0
    /\ calls = [op |-> ""]

InitQuery == StartQuery(MaxQueryShelf)

NextQuery ==
    \/ \E t \in SearchTerms, f \in SearchTypes : api_search_books(t, f)
    \/ api_generate_statistics

SpecQuery == InitQuery /\ [][NextQuery]_vars

InitRecommend == StartQuery(MaxShelf)

NextRecommend == \E u \in QueryUsers : api_generate_recommendations(u)

SpecRecommend == InitRecommend /\ [][NextRecommend]_vars

----------------------------------------------------------------------------
(* Library() on a library_data.json of any content: absent, text that      *)
(* json.load rejects, or a JSON array of up to MaxEntries entries, each a  *)
(* saved book or a saved book with one key missing.                        *)

\* the JSON object v without the member key
without(v, key) ==
    json_object([k \in (DOMAIN v.members) \ {key} |-> v.members[k]])

\* two saved books
SavedEntries == {dump_dict(to_dict(Catalogue[1])), dump_dict(to_dict(Catalogue[6]))}

\* the entries a file is made of
Entries ==
    SavedEntries
    \cup {without(dump_dict(to_dict(Catalogue[1])), key) :
             key \in DOMAIN to_dict(Catalogue[1])}

Files ==
    {Absent, Malformed}
    \cup {Text(json_array(items)) : items \in UNION {[1..n -> Entries] : n \in 0..MaxEntries}}

\* Library.__init__: self.books = [], then self.load_books()
Library_init ==
    /\ calls.op = ""
    /\ books' = load_books(file).books
    /\ out' = load_books(file).out
    /\ calls' = [op |-> "load_books"]
    /\ UNCHANGED <<file, current_user, clock, ret, faults_left>>

InitLoad ==
    /\ file \in Files
    /\ books = <<>>
    /\ current_user = <<>>
    /\ clock = 0
    /\ out = <<>>
    /\ ret = ""
    /\ faults_left = 0
    /\ calls = [op |-> ""]

NextLoad == Library_init

SpecLoad == InitLoad /\ [][NextLoad]_vars

----------------------------------------------------------------------------
(* Properties of the Store: C1 and C10 of every state of SpecFaulty, C3, C4 *)
(* and C5 of every step of Spec.                                           *)

\* C1: no two Records of the Store have the same id.
C1_UniqueIds ==
    \A i, j \in 1..Len(books) : i # j => books[i].book_id # books[j].book_id

\* two Records are in the Store and an add with a taken id has just been refused
C1_Witness == Len(books) = 2 /\ out = DuplicateIdError

\* the add inputs with an empty or absent field, and those without
EmptyFieldInputs == {a \in AddInputs : \E k \in 1..4 : a[k] = <<>> \/ a[k] = None}

FilledInputs == AddInputs \ EmptyFieldInputs

\* a Record of the Store has the id book_id
IdTaken(book_id) == \E i \in 1..Len(books) : books[i].book_id = book_id

\* C3 as stated: every add with an id already in the Store reports
\* DuplicateIdError and leaves the Store and the file unchanged.
C3_Original ==
    [][\A a \in AddInputs :
          IdTaken(a[4]) /\ add_book(a[1], a[2], a[3], a[4])
              => out' = DuplicateIdError /\ books' = books /\ file' = file]_vars

\* C3 amended: an add with non-empty title, author and genre and an id already
\* in the Store reports DuplicateIdError; every add with an id already in the
\* Store leaves the Store and the file unchanged.
C3_DuplicateId ==
    [][\A a \in AddInputs :
          IdTaken(a[4]) /\ add_book(a[1], a[2], a[3], a[4])
              => /\ books' = books
                 /\ file' = file
                 /\ ~(Falsy(a[1]) \/ Falsy(a[2]) \/ Falsy(a[3]))
                        => out' = DuplicateIdError]_vars

\* an add with a taken id has just been refused and the file holds the Store
C3_Witness ==
    /\ out = DuplicateIdError
    /\ books # <<>>
    /\ file = Text(json_dump([i \in 1..Len(books) |-> to_dict(books[i])]))

\* C4: an add with an empty or absent field reports ValidationError, which is
\* not DuplicateIdError, also when the id is taken, and leaves the Store and
\* the file unchanged.
C4_Validation ==
    [][\A a \in EmptyFieldInputs :
          add_book(a[1], a[2], a[3], a[4])
          => /\ out' = ValidationError
             /\ out' # DuplicateIdError
             /\ books' = books
             /\ file' = file]_vars

\* an add has just been refused for an empty field while the Store holds Records
C4_Witness == out = ValidationError /\ Len(books) = 2

\* C5: an add with four non-empty fields and a fresh id appends one Record, which
\* findById then returns: the given fields, not borrowed, no history, no ratings.
C5_AddThenFind ==
    [][\A a \in FilledInputs :
          ~IdTaken(a[4]) /\ add_book(a[1], a[2], a[3], a[4])
          => /\ Len(books') = Len(books) + 1
             /\ SubSeq(books', 1, Len(books)) = books
             /\ find(books', a[4]) = Len(books')
             /\ books'[Len(books')] =
                    [title |-> a[1], author |-> a[2], genre |-> a[3],
                     book_id |-> a[4], is_borrowed |-> FALSE,
                     borrow_history |-> <<>>, rating |-> <<0, 0, 0>>,
                     num_ratings |-> 0]]_vars

\* a second Record has just been added behind one that has a history
C5_Witness ==
    /\ Len(out) >= 1 /\ out[Len(out)] = "Book added successfully."
    /\ Len(books) = 2
    /\ books[1].borrow_history # <<>>

\* C10: saving the Store and loading the file into a new Store gives the same
\* sequence of Records, field for field.
C10_RoundTrip ==
    load_books(save_books(books, file, "ok").file).books = books

\* the Store holds a Record without history or ratings and one with a closed
\* history entry and a rating
C10_Witness ==
    /\ \E i \in 1..Len(books) :
           books[i].borrow_history = <<>> /\ books[i].num_ratings = 0
    /\ \E i \in 1..Len(books) :
           /\ books[i].borrow_history # <<>>
           /\ books[i].borrow_history[1].return_date # None
           /\ books[i].num_ratings > 0

----------------------------------------------------------------------------
(* Properties of one Record, checked under SpecRecord.                     *)

\* the entries of a borrow history that have no return time
OpenEntries(h) == {k \in 1..Len(h) : h[k].return_date = None}

\* C2: the open entries of a Record's history are the last entry alone when the
\* Record is borrowed, and none when it is not.
C2_OpenEntry ==
    \A i \in 1..Len(books) :
        OpenEntries(books[i].borrow_history) =
            IF books[i].is_borrowed THEN {Len(books[i].borrow_history)} ELSE {}

\* the Record is borrowed for the second time
C2_Witness ==
    /\ books[1].is_borrowed
    /\ Len(books[1].borrow_history) = 2
    /\ books[1].borrow_history[1].return_date # None

\* C6: borrow on a borrowed Record returns False and changes neither borrowed nor
\* the history; on a Record not borrowed it returns True, sets borrowed and
\* appends one entry with the given borrower and no return time.
C6_Borrow ==
    [][\A u \in RecordUsers :
          api_borrow(u) =>
              LET h == books[1].borrow_history
                  h2 == books'[1].borrow_history
              IN  IF books[1].is_borrowed
                  THEN /\ ret' = "False"
                       /\ books'[1].is_borrowed = books[1].is_borrowed
                       /\ h2 = h
                  ELSE /\ ret' = "True"
                       /\ books'[1].is_borrowed = TRUE
                       /\ Len(h2) = Len(h) + 1
                       /\ SubSeq(h2, 1, Len(h)) = h
                       /\ h2[Len(h2)].user_id = u
                       /\ h2[Len(h2)].return_date = None]_vars

\* a borrow has just been refused on a Record borrowed for the second time
C6_Witness ==
    /\ ret = "False"
    /\ books[1].is_borrowed
    /\ Len(books[1].borrow_history) = 2

\* C7: return on a borrowed Record returns True, clears borrowed and sets the
\* return time of the last entry without changing the length of the history;
\* return on a Record not borrowed returns False and changes nothing.
C7_Return ==
    [][api_return_book =>
          LET h == books[1].borrow_history
              h2 == books'[1].borrow_history
          IN  IF books[1].is_borrowed
              THEN /\ ret' = "True"
                   /\ books'[1].is_borrowed = FALSE
                   /\ Len(h2) = Len(h)
                   /\ h2[Len(h2)].return_date # None
              ELSE /\ ret' = "False"
                   /\ books' = books]_vars

\* a return has just been refused on a Record that was borrowed and returned
C7_Witness ==
    /\ ret = "False"
    /\ ~books[1].is_borrowed
    /\ books[1].borrow_history # <<>>
    /\ books[1].borrow_history[Len(books[1].borrow_history)].return_date # None

\* the float nearest to the mean of the ratings counted in calls
RoundedMean == IF calls.valid = 0 THEN float(0) ELSE FDiv(calls.sum, calls.valid)

\* C8 as stated: the count is the number of calls with a rating in [1, 5] and the
\* average is the mean of those ratings (as a float: the float nearest to it).
C8_Original ==
    /\ books[1].num_ratings = calls.valid
    /\ books[1].rating = RoundedMean
    /\ calls.valid = 0 => books[1].rating = float(0)
    /\ calls.valid > 0 => FLe(float(0), books[1].rating) /\ FLe(books[1].rating, float(5))

\* C8 amended: the count is the number of calls with a rating in [1, 5]; the
\* average is exactly 0 while the count is 0, lies in [0, 5] afterwards, and
\* differs from the mean of those ratings by at most count * 2^-49, that is
\* |average * count - sum| <= 8 * count^2 in units of 2^-52.
C8_RunningMean ==
    LET n == calls.valid
        x == books[1].rating
        product == Norm(<<x[1] * n, x[2] * n, x[3] * n>>)
        slack == 8 * n * n
        low == Norm(<<calls.sum[1], calls.sum[2], calls.sum[3] - slack>>)
        high == Norm(<<calls.sum[1], calls.sum[2], calls.sum[3] + slack>>)
    IN  /\ books[1].num_ratings = n
        /\ n = 0 => x = float(0)
        /\ n > 0 => FLe(float(0), x) /\ FLe(x, float(5))
        /\ n > 0 => FLe(low, product) /\ FLe(product, high)

\* ratings were added and refused, and the average is not the float nearest to
\* the mean
C8_Witness ==
    /\ calls.valid >= 2
    /\ calls.rejected
    /\ books[1].rating # RoundedMean

\* C9: add_rating with a rating outside [1, 5] returns normally and leaves the
\* whole Record unchanged.
C9_OutOfRange ==
    [][\A r \in RecordRatings :
          api_add_rating(r) /\ ~(FLe(float(1), r) /\ FLe(r, float(5)))
              => books' = books /\ ret' = "None"]_vars

\* a rating has just been refused on a Record that has ratings and a history
C9_Witness ==
    /\ ret = "None"
    /\ calls.rejected
    /\ books[1].num_ratings >= 1
    /\ books[1].borrow_history # <<>>

----------------------------------------------------------------------------
(* Properties of search_books and generate_statistics, checked under       *)
(* SpecQuery.                                                              *)

\* c and d are the same character or the two cases of one letter
SameLetter(c, d) ==
    \/ c = d
    \/ index(UpperCase, c) > 0 /\ index(UpperCase, c) = index(LowerCase, d)
    \/ index(LowerCase, c) > 0 /\ index(LowerCase, c) = index(UpperCase, d)

\* term occurs in text as a substring, letter case ignored
ContainsIgnoringCase(term, text) ==
    \E i \in 0..(Len(text) - Len(term)) :
        \A k \in 1..Len(term) : SameLetter(term[k], text[i + k])

\* the Record b is one a search for term in field has to return
Selected(b, term, field) ==
    CASE field = "title" -> ContainsIgnoringCase(term, b.title)
      [] field = "author" -> ContainsIgnoringCase(term, b.author)
      [] field = "genre" -> ContainsIgnoringCase(term, b.genre)
      [] field = "all" ->
             \/ ContainsIgnoringCase(term, b.title)
             \/ ContainsIgnoringCase(term, b.author)
             \/ ContainsIgnoringCase(term, b.genre)

\* C12: search(term, field) returns exactly the Records of the Store whose
\* field contains term ignoring letter case (any of title, author, genre for
\* field all), each once, and the empty sequence when there is none.
C12_SearchMatches ==
    calls.op = "search_books" =>
        LET hits == {i \in 1..Len(books) :
                        Selected(books[i], calls.search_term, calls.search_type)}
        IN  /\ \A i \in hits : \E k \in 1..Len(ret) : ret[k] = books[i]
            /\ \A k \in 1..Len(ret) : \E i \in hits : ret[k] = books[i]
            /\ Len(ret) = Cardinality(hits)
            /\ hits = {} => ret = <<>>

\* a search for an upper-case term in the titles has returned some of the
\* Records of the Store and not all
C12_Witness ==
    /\ calls.op = "search_books"
    /\ calls.search_term = <<"D", "U">>
    /\ calls.search_type = "title"
    /\ 0 < Len(ret)
    /\ Len(ret) < Len(books)

\* the place of the Record b in the Store
StoreIndex(b) == CHOOSE i \in 1..Len(books) : books[i] = b

\* C13: the sequence search returns is ordered by descending rating, among
\* Records of equal rating by ascending title, and Records equal on both keep
\* their Store order.
C13_SearchOrder ==
    calls.op = "search_books" =>
        \A k, l \in 1..Len(ret) :
            k < l =>
                /\ FLe(ret[l].rating, ret[k].rating)
                /\ ret[l].rating = ret[k].rating => ~str_lt(ret[l].title, ret[k].title)
                /\ ret[l].rating = ret[k].rating /\ ret[l].title = ret[k].title
                       => StoreIndex(ret[k]) < StoreIndex(ret[l])

\* a search has returned three Records in another order than the Store's, two
\* of them with the same rating and title
C13_Witness ==
    /\ calls.op = "search_books"
    /\ Len(ret) = 3
    /\ \E k \in 1..2 : StoreIndex(ret[k]) > StoreIndex(ret[k + 1])
    /\ \E k \in 1..2 : ret[k].rating = ret[k + 1].rating /\ ret[k].title = ret[k + 1].title

\* C16 as stated: the borrow-frequency map of aggregate() maps the title of
\* every Record of the Store to the length of that Record's borrow history.
C16_BorrowFrequency ==
    calls.op = "generate_statistics" =>
        \A i \in 1..Len(books) :
            ret.borrow_frequency[books[i].title] = Len(books[i].borrow_history)

----------------------------------------------------------------------------
(* Properties of generate_recommendations, checked under SpecRecommend.    *)

\* the history entries by user_id of the Records of the Store, each as the
\* place of its Record and its place in the history
EntriesBy(user_id) ==
    {e \in UNION {{i} \X (1..Len(books[i].borrow_history)) : i \in 1..Len(books)} :
        books[e[1]].borrow_history[e[2]].user_id = user_id}

\* the score of the Record b for user_id
Score(b, user_id) ==
    FAdd(float(2 * Cardinality({e \in EntriesBy(user_id) : books[e[1]].genre = b.genre})
               + 3 * Cardinality({e \in EntriesBy(user_id) : books[e[1]].author = b.author})),
         b.rating)

\* the score of every Record of the Store, by its place
Scores(user_id) == [i \in 1..Len(books) |-> Score(books[i], user_id)]

\* the places of the qualifying Records: not borrowed, score above 0
Qualifying(user_id) ==
    LET sc == Scores(user_id)
    IN  {i \in 1..Len(books) : ~books[i].is_borrowed /\ sc[i] # float(0)}

\* the scores of the qualifying Records are pairwise distinct
DistinctScores(user_id) ==
    LET sc == Scores(user_id)
        q == Qualifying(user_id)
    IN  \A i, j \in q : i # j => sc[i] # sc[j]

\* a > b on floats
FGt(a, b) == FLe(b, a) /\ a # b

\* C14: with pairwise distinct scores recommend returns the 5 qualifying
\* Records of highest score (all of them when there are fewer), each not
\* borrowed and of score above 0, in strictly descending score order.
C14_Recommend ==
    calls.op = "generate_recommendations" /\ DistinctScores(calls.user_id) =>
        LET sc == Scores(calls.user_id)
            q == Qualifying(calls.user_id)
            value == ret.value
        IN  /\ ret.raised = ""
            /\ Len(value) <= TopN
            /\ \A k \in 1..Len(value) : \E i \in q : value[k] = books[i]
            /\ LET at == [k \in 1..Len(value) |-> StoreIndex(value[k])]
                   returned == {at[k] : k \in 1..Len(value)}
               IN  /\ Len(value) = Cardinality(returned)
                   /\ Cardinality(q) <= TopN => returned = q
                   /\ Cardinality(q) > TopN => Len(value) = TopN
                   /\ \A k \in 1..Len(value) :
                          ~books[at[k]].is_borrowed /\ FGt(sc[at[k]], float(0))
                   /\ \A k \in 1..(Len(value) - 1) : FGt(sc[at[k]], sc[at[k + 1]])
                   /\ \A i \in q \ returned : \A j \in returned : FGt(sc[j], sc[i])

\* six Records qualified with different scores and five were returned, not in
\* the order of the Store
C14_Witness ==
    /\ calls.op = "generate_recommendations"
    /\ DistinctScores(calls.user_id)
    /\ Cardinality(Qualifying(calls.user_id)) = 6
    /\ ret.raised = ""
    /\ Len(ret.value) = 5
    /\ \E k \in 1..4 : StoreIndex(ret.value[k]) > StoreIndex(ret.value[k + 1])

\* C15 as stated: when qualifying Records have the same score, recommend still
\* returns a ranking, by descending score, Records of equal score in the
\* order of the Store.
C15_TieOrder ==
    calls.op = "generate_recommendations" /\ ~DistinctScores(calls.user_id) =>
        LET sc == Scores(calls.user_id)
            value == ret.value
        IN  /\ ret.raised = ""
            /\ value # <<>>
            /\ \A k \in 1..Len(value) : \E i \in 1..Len(books) : value[k] = books[i]
            /\ \A k, l \in 1..Len(value) :
                   k < l =>
                       /\ FLe(sc[StoreIndex(value[l])], sc[StoreIndex(value[k])])
                       /\ sc[StoreIndex(value[l])] = sc[StoreIndex(value[k])]
                              => StoreIndex(value[k]) < StoreIndex(value[l])

----------------------------------------------------------------------------
(* Properties of saving and loading: C11 of every state and C19 of every   *)
(* step of SpecFaulty, C18 of every state of SpecLoad.                     *)

\* what the flows print after a mutation
SuccessLines ==
    {"Book added successfully.", "Book borrowed successfully.",
     "Book returned successfully.", "Rating added successfully."}

\* the serialization of the whole Store bs
Serialized(bs) == Text(json_dump([i \in 1..Len(bs) |-> to_dict(bs[i])]))

\* the last operation was a successful add, borrow, return or rate
Mutated == out # <<>> /\ out[Len(out)] \in SuccessLines

\* the save of the last operation raised
SaveFailed == \E k \in 1..Len(out) : out[k] = "Error saving library data"

\* C11: after a successful add, borrow, return or rate whose save succeeded,
\* the file is the serialization of the whole in-memory Store.
C11_Persisted == Mutated /\ ~SaveFailed => file = Serialized(books)

\* a return on a Store of two Records was saved after an earlier save had
\* failed
C11_Witness ==
    /\ out = <<"Book returned successfully.">>
    /\ Len(books) = 2
    /\ faults_left < MaxSaveFailures

\* C19 as stated: after a save that failed the file is what it was before the
\* save or the complete new serialization, never an empty or partly written
\* file.
C19_AtomicSave ==
    [][SaveFailed' /\ Mutated'
          => file' = file \/ file' = Serialized(books')]_vars

\* an entry of a JSON array that lacks a key from_dict requires
LacksRequired(entry) ==
    ~({"title", "author", "genre", "book_id", "is_borrowed", "borrow_history"}
          \subseteq DOMAIN entry.members)

\* C18: load yields an empty Store, without raising, when the file is absent,
\* when it is unparseable and when an entry lacks a required field, whatever
\* entries precede that one.
C18_LoadFallback ==
    calls.op = "load_books" =>
        /\ file = Absent => books = <<>> /\ out = <<>>
        /\ file = Malformed => books = <<>>
        /\ file.kind = "text"
               /\ (\E i \in 1..Len(file.json.items) : LacksRequired(file.json.items[i]))
               => books = <<>>

\* a file of two entries was loaded whose first is a saved book and whose
\* second lacks a required field
C18_Witness ==
    /\ calls.op = "load_books"
    /\ file.kind = "text"
    /\ Len(file.json.items) = 2
    /\ ~LacksRequired(file.json.items[1])
    /\ LacksRequired(file.json.items[2])
    /\ books = <<>>
    /\ out = <<"Error loading library data">>

----------------------------------------------------------------------------
(* Properties of every step of the flows, checked under Spec.              *)

\* C17: a borrow (by a logged-in user), return or rate request naming an id no
\* Record of the Store has prints "Book not found." and changes neither the
\* Store nor the file.
C17_NotFound ==
    [][\A id \in IdInputs :
          /\ ~IdTaken(id)
          /\ \/ ~Falsy(current_user) /\ main_borrow(id)
             \/ main_return(id)
             \/ \E r \in RatingInputs : main_rate(id, r)
             \/ main_rate_invalid(id)
          => /\ out' = <<"Book not found.">>
             /\ books' = books
             /\ file' = file]_vars

\* an unknown id has just been refused while the Store holds a borrowed Record
C17_Witness ==
    /\ out = <<"Book not found.">>
    /\ \E i \in 1..Len(books) : books[i].is_borrowed
    /\ file = Serialized(books)

\* the Record new is the Record old with nothing removed or rewritten: the same
\* id, title, author and genre, the same history entries in the same places
\* with at most one more behind them, no return time changed once set
Extends(old, new) ==
    /\ new.book_id = old.book_id
    /\ new.title = old.title
    /\ new.author = old.author
    /\ new.genre = old.genre
    /\ Len(new.borrow_history) >= Len(old.borrow_history)
    /\ Len(new.borrow_history) <= Len(old.borrow_history) + 1
    /\ Len(new.borrow_history) = Len(old.borrow_history) + 1
           <=> ~old.is_borrowed /\ new.is_borrowed
    /\ \A k \in 1..Len(old.borrow_history) :
           /\ new.borrow_history[k].user_id = old.borrow_history[k].user_id
           /\ new.borrow_history[k].borrow_date = old.borrow_history[k].borrow_date
           /\ old.borrow_history[k].return_date # None
                  => new.borrow_history[k].return_date = old.borrow_history[k].return_date

====
